---- MODULE Spec2Model ----
(***************************************************************************)
(* The hash-based SPA router of the Kattali Textile website                *)
(* (public/scripts/router.js): navigation state, fragment cache, prefetch  *)
(* set, the DOM the router writes (mount point, title, loading indicator)  *)
(* and the asynchronous loadRoute / prefetchRoute invocations in flight.   *)
(*                                                                         *)
(* Strings the code slices or concatenates (paths, hashes, titles) are     *)
(* sequences of tokens: "/" and "#" are one token each, a path segment is  *)
(* one token, so '' is << >> and '#/about' is <<"#", "/", "about">>.       *)
(***************************************************************************)
EXTENDS Naturals, Sequences, FiniteSets

VARIABLES
  hasApp,            \* document.getElementById('app') found an element
  hasLoading,        \* document.querySelector('.loading-skeleton') found one
  currentRoute,      \* Router.currentRoute (a path, or Null)
  cache,             \* Router.cache: component -> markup (NoContent: no entry)
  prefetchedRoutes,  \* Router.prefetchedRoutes: set of paths
  appInnerHTML,      \* appContainer.innerHTML
  documentTitle,     \* document.title
  loadingDisplay,    \* loadingElement.style.display
  pageHook,          \* the page-specific hook initializePageComponents ran last
  locationHash,      \* window.location.hash
  hashchangeQueue,   \* hashchange events queued and not yet dispatched
  tasks,             \* async invocations suspended at an await
  timerQueue,        \* slots whose transition timer runs, in start order
  hooksRun,          \* hooks of the last initializePageComponents that returned
  phaseLog,          \* history: per slot, the calls its last loadRoute made
  fetchCount,        \* history: fetches issued per component
  prefetchFetches,   \* history: fetches issued by prefetchRoute
  prefetchCalls,     \* history: prefetchRoute calls per argument
  loadLog,           \* history: the first two loadComponent calls per component
  events,            \* history: number of user events so far
  firstEvent,        \* history: the first user event and the state it met
  lastOp,            \* history: what the last step did
  configCall,        \* a getConfig / isFeatureEnabled call and what it returned
  theme,             \* KTLApplication's theme, the attribute and the storage
  themeLog,          \* history: the last two theme events and the states they met
  charts,            \* the StockVisualization instances created so far
  now,               \* milliseconds since new Router()
  critical,          \* where the loop of prefetchCriticalRoutes stands
  lastKey            \* history: the last keydown event and what it called

vars == <<hasApp, hasLoading, currentRoute, cache, prefetchedRoutes,
          appInnerHTML, documentTitle, loadingDisplay, pageHook, locationHash,
          hashchangeQueue, tasks, timerQueue, hooksRun, phaseLog, fetchCount, prefetchFetches, prefetchCalls,
          loadLog, events, firstEvent, lastOp, configCall, theme, themeLog,
          charts, now, critical, lastKey>>

\* What the router reads and writes, with the history kept about it.
navVars == <<hasApp, hasLoading, currentRoute, cache, prefetchedRoutes,
             appInnerHTML, documentTitle, loadingDisplay, pageHook,
             locationHash, hashchangeQueue, tasks, timerQueue, hooksRun,
             phaseLog, fetchCount, prefetchFetches, prefetchCalls, loadLog,
             events, firstEvent, lastOp>>

\* The state of the other modules of the page.
otherVars == <<configCall, theme, themeLog, charts>>

\* What a navigation or a hover never touches: the other modules, the clock
\* and the loop of prefetchCriticalRoutes.
appVars == <<otherVars, now, critical, lastKey>>

\* What loadRoute and prefetchRoute own or write.
routerVars == <<currentRoute, cache, prefetchedRoutes, appInnerHTML,
                documentTitle, loadingDisplay, pageHook, tasks, timerQueue,
                hooksRun, phaseLog, fetchCount, prefetchFetches, loadLog>>

(***************************************************************************)
(* Bounds                                                                  *)
(***************************************************************************)
MaxTime == 3000    \* the clock stops here
TickMs == 1000     \* the clock advances in steps of this many milliseconds
MaxPathKeys == 3   \* keys in the dot path of a getConfig call
MaxTasks == 2      \* async invocations in flight at once
MaxActivations == 3 \* activations of the investors page in a session
MaxFrames == 2     \* frames counted per chart (later ones are not counted)
MaxThemeEvents == 4 \* clicks on the theme toggle and system theme changes
MaxKeys == 1       \* keydown events in a session of SpecKeyboard
MaxClicks == 1     \* navigateTo calls after startup in a session of Spec
MaxHovers == 2     \* prefetchRoute calls in a session of SpecPrefetch
NumVersions == 2   \* distinct bodies the server may answer for one fragment

(***************************************************************************)
(* Route table                                                             *)
(***************************************************************************)
Route(p, c, t) == [path |-> p, component |-> c, title |-> t]

Routes ==
  << Route(<< >>, "home", "Home"),
     Route(<<"home">>, "home", "Home"),
     Route(<<"about">>, "about", "About Us"),
     Route(<<"sustainability">>, "sustainability", "Sustainability"),
     Route(<<"certifications">>, "certifications", "Certifications"),
     Route(<<"clients">>, "clients", "Our Clients"),
     Route(<<"impact">>, "impact", "Impact Stories"),
     Route(<<"careers">>, "careers", "Careers"),
     Route(<<"news">>, "news", "News & Updates"),
     Route(<<"contact">>, "contact", "Contact Us"),
     Route(<<"rfq">>, "rfq", "Request for Quote"),
     Route(<<"investors">>, "investors", "Investor Relations"),
     Route(<<"privacy">>, "privacy", "Privacy Policy"),
     Route(<<"terms">>, "terms", "Terms of Service") >>


\* Map.get on a missing key
Undefined == Route(<<"undefined">>, "", "")

\* this.routes.has(path)
routesHas(path) == \E i \in DOMAIN Routes : Routes[i].path = path

\* this.routes.get(path)
routesGet(path) ==
  IF routesHas(path)
  THEN Routes[CHOOSE i \in DOMAIN Routes : Routes[i].path = path]
  ELSE Undefined

\* Faulty variant: the default route is the first table entry, not the 'home' key.
ResolveFirstEntry(path) ==
  IF routesHas(path) THEN routesGet(path) ELSE Routes[1]

\* this.routes.get(path) || this.routes.get('home')
Resolve(path) ==
  IF routesHas(path) THEN routesGet(path) ELSE routesGet(<<"home">>)

\* currentRoute before the first render
Null == <<"null">>

(***************************************************************************)
(* Path and hash conversions                                               *)
(***************************************************************************)
RECURSIVE Normalize(_)
\* path.replace(/^\/+/, '')
Normalize(path) ==
  IF path # << >> /\ Head(path) = "/" THEN Normalize(Tail(path)) ELSE path

\* normalizedPath ? `#/${normalizedPath}` : '#/'
HashFor(normalizedPath) ==
  IF normalizedPath # << >> THEN <<"#", "/">> \o normalizedPath ELSE <<"#", "/">>

\* s.slice(1)
Slice1(s) == IF s = << >> THEN << >> ELSE Tail(s)

\* hash.slice(1), then drop one leading '/'
PathFromHash(hash) ==
  LET h == Slice1(hash)
  IN  IF h # << >> /\ Head(h) = "/" THEN Slice1(h) ELSE h

(***************************************************************************)
(* Markup values                                                           *)
(***************************************************************************)
Markup(k, c, v) == [kind |-> k, component |-> c, version |-> v]

NoContent == Markup("none", "", 0)          \* no cache entry / not returned yet
ShellContent == Markup("shell", "", 0)      \* what #app holds before any render
Fragment(c, v) == Markup("fragment", c, v)  \* body of partials/<c>.html
ErrorPage == Markup("oops", "", 0)          \* 'Oops! Something went wrong'

\* 'Content Unavailable' block naming the component
getErrorContent(component) == Markup("unavailable", component, 0)

Versions == 1 .. NumVersions
Outcomes == {"ok", "http_error", "network_error"}

(***************************************************************************)
(* Title                                                                   *)
(***************************************************************************)
TitleTemplate == <<"%s", " | Kattali Textile Ltd.">>

RECURSIVE ReplaceFirst(_, _, _)
\* String.prototype.replace with a string pattern: the first occurrence only
ReplaceFirst(s, tok, by) ==
  IF s = << >> THEN << >>
  ELSE IF Head(s) = tok THEN <<by>> \o Tail(s)
       ELSE <<Head(s)>> \o ReplaceFirst(Tail(s), tok, by)

\* getConfig('SEO.TITLE_TEMPLATE', ...).replace('%s', title)
FullTitle(title) == ReplaceFirst(TitleTemplate, "%s", title)

(***************************************************************************)
(* Inputs                                                                  *)
(***************************************************************************)
\* The registered paths the model's user asks for.
InputPaths == {<< >>, <<"home">>, <<"about">>}

\* const criticalRoutes = ['about', 'contact', 'rfq']
\* Faulty variant: the list in another order.
criticalRoutesReordered == <<<<"contact">>, <<"about">>, <<"rfq">>>>

criticalRoutes == <<<<"about">>, <<"contact">>, <<"rfq">>>>

\* getConfig('PERFORMANCE.PREFETCH_DELAY', 2000)
PREFETCH_DELAY == 2000

\* The components of the route table: the keys the cache can get.
Components == {Routes[k].component : k \in DOMAIN Routes}

UnknownPath == <<"unknown-page">>

\* data-route values a click hands to navigateTo
NavArgs == InputPaths \cup {<<"/">> \o UnknownPath}

\* data-route values a hover hands to prefetchRoute
HoverArgs == InputPaths \cup {UnknownPath}

\* the hash the page is opened with
InitialHashes == {<< >>, HashFor(<<"about">>)}

(***************************************************************************)
(* Async invocations                                                       *)
(***************************************************************************)
Task(op, route, await, content, failed, callNo) ==
  [op |-> op, route |-> route, await |-> await, content |-> content,
   failed |-> failed, callNo |-> callNo]

IdleTask == Task("idle", << >>, "", NoContent, FALSE, 0)

Slots == 1 .. MaxTasks

HasFree == \E i \in Slots : tasks[i] = IdleTask

\* the lowest free slot (slot 1 when none is free; callers require HasFree)
FreeSlot ==
  IF HasFree
  THEN CHOOSE i \in Slots :
         tasks[i] = IdleTask /\ \A j \in Slots : j < i => tasks[j] # IdleTask
  ELSE 1

\* nothing in flight: no invocation suspended, no hashchange event queued
Quiescent == (\A i \in Slots : tasks[i] = IdleTask) /\ hashchangeQueue = 0

(***************************************************************************)
(* History of loadComponent calls (the first two per component)            *)
(***************************************************************************)
LogEntry(ret, fetched, prevDone) ==
  [ret |-> ret, fetched |-> fetched, prevDone |-> prevDone]

\* The number a new call gets in the log of component c: 1, 2, or 0 (not logged).
NextCallNo(c) == IF Len(loadLog[c]) < 2 THEN Len(loadLog[c]) + 1 ELSE 0

LogCall(c, ret, fetched) ==
  IF NextCallNo(c) = 0 THEN loadLog
  ELSE [loadLog EXCEPT ![c] =
          Append(@, LogEntry(ret, fetched,
                             @ = << >> \/ @[Len(@)].ret # NoContent))]

LogReturn(c, callNo, ret) ==
  IF callNo = 0 THEN loadLog ELSE [loadLog EXCEPT ![c][callNo].ret = ret]

(***************************************************************************)
(* Reports of a step, kept in lastOp                                       *)
(***************************************************************************)
Report(finished, exit, settled, failed, component) ==
  [finished |-> finished, exit |-> exit, settled |-> settled,
   failed |-> failed, component |-> component]

NoReport == Report("", "", "", FALSE, "")

Op(op, path, report) == [op |-> op, path |-> path, report |-> report]

(***************************************************************************)
(* Router helpers                                                          *)
(***************************************************************************)
\* Faulty variant: showLoading() does nothing.
showLoadingNoop(display) == display

\* showLoading(): the indicator's display after the call
showLoading(display) == IF hasLoading THEN "block" ELSE display

\* Faulty variant: hideLoading() does nothing.
hideLoadingNoop(display) == display

\* hideLoading(): the indicator's display after the call
hideLoading(display) == IF hasLoading THEN "none" ELSE display

\* Faulty variant: the already-current check is missing.
alreadyOnRouteNever(route) == FALSE

\* this.currentRoute === route.path
alreadyOnRoute(route) == currentRoute = route.path

\* Faulty variant: the fetched content is not stored.
cacheSetSkipped(c, content) == cache

\* this.cache.set(component, content)
cacheSet(c, content) == [cache EXCEPT ![c] = content]

\* Faulty variant: the fallback markup of a failed fetch is cached like a response.
fetchSettledCachingFallback(c, outcome, v) ==
  IF outcome = "ok"
  THEN [content |-> Fragment(c, v), cache |-> cacheSet(c, Fragment(c, v))]
  ELSE [content |-> getErrorContent(c), cache |-> cacheSet(c, getErrorContent(c))]

\* Faulty variant: the response body is dropped and the fallback returned.
fetchSettledDroppingBody(c, outcome, v) ==
  [content |-> getErrorContent(c), cache |-> cache]

\* loadComponent after its fetch settled: what it returns and the cache it leaves.
\* outcome "ok" with body version v is stored and returned; a rejected fetch or a
\* non-ok status is caught and answered with the fallback, the cache untouched.
fetchSettled(c, outcome, v) ==
  IF outcome = "ok"
  THEN [content |-> Fragment(c, v), cache |-> cacheSet(c, Fragment(c, v))]
  ELSE [content |-> getErrorContent(c), cache |-> cache]

\* handleRouteError(): the mount point after it, or the TypeError of
\* null.innerHTML when there is no mount point
handleRouteError(html) ==
  IF hasApp THEN [threw |-> FALSE, html |-> ErrorPage]
  ELSE [threw |-> TRUE, html |-> html]

\* What may throw between the currentRoute write and the end of the try block:
\* the page-activation hooks or the analytics call, or neither.
Throws == {"none", "initializePageComponents", "trackPageView"}

\* the switch of initializePageComponents
PageHookOf(component) ==
  CASE component = "home" -> "initializeHomeComponents"
    [] component = "contact" -> "initializeContactForm"
    [] component = "rfq" -> "initializeRFQForm"
    [] component = "investors" -> "initializeInvestorCharts"
    [] component = "careers" -> "initializeCareersComponents"
    [] component = "news" -> "initializeNewsComponents"
    [] OTHER -> "initializeGenericComponents"

\* The hooks initializePageComponents(component) calls, in call order; the
\* default case runs lazy loading and tooltips inside the generic hook.
HooksOf(component) ==
  <<"initializeKineticText", "initializeScrollAnimations",
    PageHookOf(component)>>
  \o (IF PageHookOf(component) = "initializeGenericComponents"
      THEN <<"initializeLazyLoading", "initializeTooltips">> ELSE << >>)
  \o <<"initializeTiltCards">>

\* The elements of a sequence.
Range(seq) == {seq[k] : k \in 1 .. Len(seq)}

\* Faulty variant: the timer started last fires first.
NextTimerLatest(queue) == queue[Len(queue)]

\* The slot whose transition timer fires next: every invocation waits the same
\* transitionDuration / 2, and timers of equal delay fire in start order.
NextTimer(queue) == Head(queue)

\* The calls of loadRoute's try block from the currentRoute write on, then the
\* catch (when one of them threw) and the finally.
\* Faulty variant: the analytics call comes before the page hooks.
TailPhasesSwapped(thrown) ==
  <<"currentRoute", "trackPageView", "initializePageComponents">>
  \o (IF thrown # "none" THEN <<"handleRouteError">> ELSE << >>)
  \o <<"hideLoading">>

TailPhases(thrown) ==
  <<"currentRoute", "initializePageComponents">>
  \o (IF thrown = "initializePageComponents" THEN << >> ELSE <<"trackPageView">>)
  \o (IF thrown # "none" THEN <<"handleRouteError">> ELSE << >>)
  \o <<"hideLoading">>

(***************************************************************************)
(* loadRoute, as the values each of its segments leaves                    *)
(***************************************************************************)
\* Faulty variant: an invocation whose hooks or analytics throw never ends; it
\* stays in its render phase with the indicator shown.
settleStuckOnThrow(i, route, failed, thrown, html, display) ==
  [currentRoute |-> route.path,
   pageHook |-> PageHookOf(route.component),
   appInnerHTML |-> html,
   documentTitle |-> documentTitle,
   loadingDisplay |-> IF thrown = "none" THEN hideLoading(display) ELSE display,
   tasks |-> IF thrown = "none" THEN [tasks EXCEPT ![i] = IdleTask]
             ELSE [tasks EXCEPT ![i] =
                     Task("loadRoute", route.path, "stuck", html, failed, 0)],
   hooksRun |-> hooksRun,
   phases |-> (IF hasApp THEN <<"innerHTML">> ELSE << >>) \o TailPhases("none"),
   report |-> Report(IF thrown = "none" THEN "loadRoute" ELSE "",
                     IF thrown = "none" THEN "completed" ELSE "",
                     IF thrown = "none" THEN "resolved" ELSE "", failed,
                     route.component)]

\* loadRoute from the currentRoute write to the end: state update, hooks and
\* analytics (thrown names the one that throws, if any), the catch and the
\* finally.
\* html is the mount point as renderContent left it.
settle(i, route, failed, thrown, html, display) ==
  LET err == handleRouteError(html)
  IN  [currentRoute |-> route.path,
       pageHook |-> PageHookOf(route.component),
       appInnerHTML |-> IF thrown # "none" THEN err.html ELSE html,
       documentTitle |-> documentTitle,
       loadingDisplay |-> hideLoading(display),
       tasks |-> [tasks EXCEPT ![i] = IdleTask],
       hooksRun |-> IF thrown = "initializePageComponents" THEN hooksRun
                    ELSE Range(HooksOf(route.component)),
       phases |-> (IF hasApp THEN <<"innerHTML">> ELSE << >>)
                  \o TailPhases(thrown),
       report |-> Report("loadRoute",
                         IF thrown = "none" THEN "completed"
                         ELSE IF err.threw THEN "rethrown" ELSE "caught",
                         IF thrown # "none" /\ err.threw THEN "rejected"
                         ELSE "resolved",
                         failed, route.component)]

\* Faulty variant: currentRoute is written with the title, before the render.
afterLoadEager(i, route, content, failed, callNo, thrown, display) ==
  LET r == settle(i, route, failed, thrown, appInnerHTML, display)
  IN  [currentRoute |-> route.path,
       pageHook |-> IF hasApp THEN pageHook ELSE r.pageHook,
       appInnerHTML |-> IF hasApp THEN appInnerHTML ELSE r.appInnerHTML,
       documentTitle |-> FullTitle(route.title),
       loadingDisplay |-> IF hasApp THEN display ELSE r.loadingDisplay,
       tasks |-> IF hasApp
                 THEN [tasks EXCEPT ![i] =
                         Task("loadRoute", route.path, "timer", content, failed,
                              callNo)]
                 ELSE r.tasks,
       hooksRun |-> IF hasApp THEN hooksRun ELSE r.hooksRun,
       phases |-> <<"updatePageTitle", "updateActiveNavigation", "renderContent">>
                  \o (IF hasApp THEN << >> ELSE r.phases),
       timerQueue |-> IF hasApp THEN Append(timerQueue, i) ELSE timerQueue,
       report |-> IF hasApp THEN Report("", "", "", failed, route.component)
                  ELSE r.report]

\* loadRoute from the return of loadComponent: title and active link, then
\* renderContent, which returns at once without a mount point and otherwise
\* fades out and waits for the transition timer.
afterLoad(i, route, content, failed, callNo, thrown, display) ==
  IF hasApp
  THEN [currentRoute |-> currentRoute,
        pageHook |-> pageHook,
        appInnerHTML |-> appInnerHTML,
        documentTitle |-> FullTitle(route.title),
        loadingDisplay |-> display,
        tasks |-> [tasks EXCEPT ![i] =
                     Task("loadRoute", route.path, "timer", content, failed, callNo)],
        hooksRun |-> hooksRun,
        phases |-> <<"updatePageTitle", "updateActiveNavigation", "renderContent">>,
        timerQueue |-> Append(timerQueue, i),
        report |-> Report("", "", "", failed, route.component)]
  ELSE LET r == settle(i, route, failed, thrown, appInnerHTML, display)
       IN  [currentRoute |-> r.currentRoute,
            pageHook |-> r.pageHook,
            appInnerHTML |-> r.appInnerHTML,
            documentTitle |-> FullTitle(route.title),
            loadingDisplay |-> r.loadingDisplay,
            tasks |-> r.tasks,
            hooksRun |-> r.hooksRun,
            phases |-> <<"updatePageTitle", "updateActiveNavigation",
                         "renderContent">> \o r.phases,
            timerQueue |-> timerQueue,
            report |-> r.report]

\* loadRoute(path) up to its first suspension
loadRouteStep(path, thrown) ==
  LET route == Resolve(path)
      c == route.component
      i == FreeSlot
      shown == showLoading(loadingDisplay)
      same == [currentRoute |-> currentRoute, pageHook |-> pageHook,
               appInnerHTML |-> appInnerHTML, documentTitle |-> documentTitle,
               loadingDisplay |-> loadingDisplay, tasks |-> tasks,
               report |-> Report("", "already", "resolved", FALSE, c),
               cache |-> cache, fetchCount |-> fetchCount, loadLog |-> loadLog,
               timerQueue |-> timerQueue, hooksRun |-> hooksRun,
               phaseLog |-> phaseLog]
  IN  IF alreadyOnRoute(route)
      THEN same
      ELSE IF cache[c] # NoContent
      THEN LET r == afterLoad(i, route, cache[c], FALSE, 0, thrown, shown)
           IN  [same EXCEPT !.currentRoute = r.currentRoute,
                            !.pageHook = r.pageHook,
                            !.appInnerHTML = r.appInnerHTML,
                            !.documentTitle = r.documentTitle,
                            !.loadingDisplay = r.loadingDisplay,
                            !.tasks = r.tasks,
                            !.report = r.report,
                            !.timerQueue = r.timerQueue,
                            !.hooksRun = r.hooksRun,
                            !.phaseLog = [phaseLog EXCEPT ![i] =
                                            <<"showLoading", "loadComponent">>
                                            \o r.phases],
                            !.loadLog = LogCall(c, cache[c], FALSE)]
      ELSE [same EXCEPT !.loadingDisplay = shown,
                        !.tasks = [tasks EXCEPT ![i] =
                                     Task("loadRoute", route.path, "fetch",
                                          NoContent, FALSE, NextCallNo(c))],
                        !.report = Report("", "", "", FALSE, c),
                        !.phaseLog = [phaseLog EXCEPT ![i] =
                                        <<"showLoading", "loadComponent">>],
                        !.fetchCount = [fetchCount EXCEPT ![c] = @ + 1],
                        !.loadLog = LogCall(c, NoContent, TRUE)]

\* A loadRoute call needs a slot unless it returns at the already-current check.
loadRouteEnabled(path) == alreadyOnRoute(Resolve(path)) \/ HasFree

\* The step of the model that calls loadRoute(path).
LoadRoute(path, by) ==
  /\ loadRouteEnabled(path)
  /\ \E thrown \in Throws :
       \E r \in {loadRouteStep(path, thrown)} :
           /\ currentRoute' = r.currentRoute
           /\ pageHook' = r.pageHook
           /\ appInnerHTML' = r.appInnerHTML
           /\ documentTitle' = r.documentTitle
           /\ loadingDisplay' = r.loadingDisplay
           /\ tasks' = r.tasks
           /\ timerQueue' = r.timerQueue
           /\ hooksRun' = r.hooksRun
           /\ phaseLog' = r.phaseLog
           /\ cache' = r.cache
           /\ fetchCount' = r.fetchCount
           /\ loadLog' = r.loadLog
           /\ lastOp' = Op(by, path, r.report)
  /\ UNCHANGED <<hasApp, hasLoading, prefetchedRoutes, prefetchFetches>>

(***************************************************************************)
(* prefetchRoute up to its first suspension                                *)
(***************************************************************************)
\* Faulty variant: a failed prefetch is rethrown to the caller.
prefetchSettledSurfacing(path, c, failed) ==
  [prefetchedRoutes |-> IF failed THEN prefetchedRoutes
                        ELSE prefetchedRoutes \cup {path},
   report |-> Report("prefetchRoute", IF failed THEN "rethrown" ELSE "completed",
                     IF failed THEN "rejected" ELSE "resolved", failed, c)]

\* prefetchRoute after loadComponent returned, with the fragment or (failed)
\* with the fallback: the path joins the prefetch set and the promise resolves.
prefetchSettled(path, c, failed) ==
  [prefetchedRoutes |-> prefetchedRoutes \cup {path},
   report |-> Report("prefetchRoute", "completed", "resolved", failed, c)]

prefetchRouteStep(path) ==
  LET route == routesGet(path)
      c == route.component
      i == FreeSlot
      same == [prefetchedRoutes |-> prefetchedRoutes, tasks |-> tasks,
               fetchCount |-> fetchCount, prefetchFetches |-> prefetchFetches,
               loadLog |-> loadLog, phaseLog |-> phaseLog,
               report |-> Report("prefetchRoute", "skipped", "resolved", FALSE, c)]
  IN  IF path \in prefetchedRoutes \/ route = Undefined
      THEN same
      ELSE IF cache[c] # NoContent
      THEN [same EXCEPT !.prefetchedRoutes =
                          prefetchSettled(path, c, FALSE).prefetchedRoutes,
                        !.loadLog = LogCall(c, cache[c], FALSE),
                        !.report = prefetchSettled(path, c, FALSE).report]
      ELSE [same EXCEPT !.tasks = [tasks EXCEPT ![i] =
                                     Task("prefetchRoute", path, "fetch",
                                          NoContent, FALSE, NextCallNo(c))],
                        !.fetchCount = [fetchCount EXCEPT ![c] = @ + 1],
                        !.prefetchFetches = prefetchFetches + 1,
                        !.phaseLog = [phaseLog EXCEPT ![i] = << >>],
                        !.loadLog = LogCall(c, NoContent, TRUE),
                        !.report = Report("", "", "", FALSE, c)]

\* A prefetchRoute call needs a slot when it reaches the fetch.
prefetchRouteEnabled(path) ==
  IF path \in prefetchedRoutes \/ ~routesHas(path)
  THEN TRUE
  ELSE cache[routesGet(path).component] # NoContent \/ HasFree

(***************************************************************************)
(* User events                                                             *)
(***************************************************************************)
CacheEmpty == \A c \in Components : cache[c] = NoContent

\* Bookkeeping of a user event: the count, and what the first one met.
UserEvent(op, arg) ==
  /\ events' = events + 1
  /\ firstEvent' = IF events = 0
                   THEN [op |-> op, arg |-> arg, current |-> currentRoute,
                         cacheEmpty |-> CacheEmpty, idle |-> Quiescent]
                   ELSE firstEvent

\* A click on a [data-route] link (or a keyboard shortcut): navigateTo(arg),
\* pushState defaulting to true. Assigning a different hash queues a hashchange.
navigateTo(arg) ==
  /\ LET normalizedPath == Normalize(arg)
     IN  /\ locationHash' = HashFor(normalizedPath)
         /\ hashchangeQueue' = IF HashFor(normalizedPath) # locationHash
                               THEN hashchangeQueue + 1 ELSE hashchangeQueue
         /\ LoadRoute(normalizedPath, "navigateTo")
  /\ UserEvent("navigateTo", arg)
  /\ UNCHANGED prefetchCalls

NavigateTo(arg) ==
  /\ events < MaxClicks
  /\ navigateTo(arg)
  /\ UNCHANGED appVars

\* Keys a keydown event may carry, and the code unit their name starts with.
Keys == {"0", "1", "2", "3", "4", "5", "6", "7", "8", "9", "a", "Enter"}

CharCode(key) ==
  CASE key = "0" -> 48 [] key = "1" -> 49 [] key = "2" -> 50
    [] key = "3" -> 51 [] key = "4" -> 52 [] key = "5" -> 53
    [] key = "6" -> 54 [] key = "7" -> 55 [] key = "8" -> 56
    [] key = "9" -> 57 [] key = "Enter" -> 69 [] key = "a" -> 97

\* e.key >= '1' && e.key <= '9', a comparison of strings
IsDigitKey(key) == CharCode(key) >= CharCode("1") /\ CharCode(key) <= CharCode("9")

\* parseInt(e.key) for a digit key
parseInt(key) == CharCode(key) - CharCode("0")

\* Array.from(this.routes.keys()).slice(0, 9)
FirstRouteKeys == [k \in 1 .. 9 |-> Routes[k].path]

\* routes[routeIndex] for a zero-based index
RouteKeyAt(routeIndex) == FirstRouteKeys[routeIndex + 1]

\* The entry of the route table a digit key stands for.
ShortcutTarget(key) == RouteKeyAt(parseInt(key) - 1)

KeyEvent(altKey, key, called, arg) ==
  [altKey |-> altKey, key |-> key, called |-> called, arg |-> arg]

NoKey == KeyEvent(FALSE, "", FALSE, << >>)

\* The keydown listener: Alt with a digit from 1 to 9 calls navigateTo for
\* the route key at that position, if that key is a non-empty string.
KeyDown(altKey, key) ==
  /\ events < MaxKeys
  /\ IF altKey /\ IsDigitKey(key) /\ ShortcutTarget(key) # << >>
     THEN /\ navigateTo(ShortcutTarget(key))
          /\ lastKey' = KeyEvent(altKey, key, TRUE, ShortcutTarget(key))
     ELSE /\ UserEvent("keydown", <<key>>)
          /\ lastKey' = KeyEvent(altKey, key, FALSE, << >>)
          /\ lastOp' = Op("keydown", <<key>>, NoReport)
          /\ UNCHANGED <<hasApp, hasLoading, currentRoute, cache,
                         prefetchedRoutes, appInnerHTML, documentTitle,
                         loadingDisplay, pageHook, locationHash,
                         hashchangeQueue, tasks, timerQueue, hooksRun, phaseLog,
                         fetchCount, prefetchFetches, prefetchCalls, loadLog>>
  /\ UNCHANGED <<otherVars, now, critical>>

\* The hashchange listener: handleRoute() reads the hash as it is now.
HashChange ==
  /\ hashchangeQueue > 0
  /\ hashchangeQueue' = hashchangeQueue - 1
  /\ LoadRoute(PathFromHash(locationHash), "hashchange")
  /\ UNCHANGED <<locationHash, prefetchCalls, events, firstEvent>>
  /\ UNCHANGED appVars

\* The pointer enters a [data-route] link: prefetchRoute(arg).
Hover(arg) ==
  /\ events < MaxHovers
  /\ prefetchRouteEnabled(arg)
  /\ \E r \in {prefetchRouteStep(arg)} :
         /\ prefetchedRoutes' = r.prefetchedRoutes
         /\ tasks' = r.tasks
         /\ fetchCount' = r.fetchCount
         /\ prefetchFetches' = r.prefetchFetches
         /\ loadLog' = r.loadLog
         /\ phaseLog' = r.phaseLog
         /\ lastOp' = Op("prefetchRoute", arg, r.report)
  /\ prefetchCalls' = [prefetchCalls EXCEPT ![arg] = @ + 1]
  /\ UserEvent("prefetchRoute", arg)
  /\ UNCHANGED <<hasApp, hasLoading, currentRoute, cache, appInnerHTML,
                 documentTitle, loadingDisplay, pageHook, locationHash,
                 hashchangeQueue, timerQueue, hooksRun>>
  /\ UNCHANGED appVars

(***************************************************************************)
(* prefetchCriticalRoutes                                                  *)
(*                                                                         *)
(* The loop is at "delay" until its first timer fires, at "prefetch" while *)
(* the prefetchRoute it awaits is suspended, at "gap" while the 100 ms     *)
(* timer after a prefetch runs, and "done" after the last gap. Only the    *)
(* first delay is measured against the clock.                              *)
(***************************************************************************)
CriticalLoop(pc, k, called) == [pc |-> pc, k |-> k, called |-> called]

\* The loop when the prefetchRoute it awaits returns: the gap timer starts.
criticalResumed(loop) ==
  IF loop.pc = "prefetch" THEN [loop EXCEPT !.pc = "gap"] ELSE loop

\* One iteration of the for loop: prefetchRoute(criticalRoutes[k]) up to its
\* suspension, and the gap timer at once when it was not suspended.
CriticalIteration(k) ==
  /\ prefetchRouteEnabled(criticalRoutes[k])
  /\ \E r \in {prefetchRouteStep(criticalRoutes[k])} :
         /\ prefetchedRoutes' = r.prefetchedRoutes
         /\ tasks' = r.tasks
         /\ fetchCount' = r.fetchCount
         /\ prefetchFetches' = r.prefetchFetches
         /\ loadLog' = r.loadLog
         /\ phaseLog' = r.phaseLog
         /\ lastOp' = Op("prefetchRoute", criticalRoutes[k], r.report)
         /\ critical' = CriticalLoop(IF r.tasks # tasks THEN "prefetch" ELSE "gap",
                                     k, Append(critical.called, criticalRoutes[k]))
  /\ UNCHANGED <<hasApp, hasLoading, currentRoute, cache, appInnerHTML,
                 documentTitle, loadingDisplay, pageHook, locationHash,
                 hashchangeQueue, timerQueue, hooksRun, prefetchCalls, events,
                 firstEvent>>
  /\ UNCHANGED <<otherVars, now, lastKey>>

\* The timer of prefetchCriticalRoutes may fire once its delay has passed.
delayElapsed(t) == t >= PREFETCH_DELAY

\* The PREFETCH_DELAY timer fires: the loop starts with its first route.
CriticalDelayFired ==
  /\ critical.pc = "delay"
  /\ delayElapsed(now)
  /\ CriticalIteration(1)

\* The 100 ms timer after a prefetch fires: the next route, or the end.
CriticalGapFired ==
  /\ critical.pc = "gap"
  /\ IF critical.k < Len(criticalRoutes)
     THEN CriticalIteration(critical.k + 1)
     ELSE /\ critical' = [critical EXCEPT !.pc = "done"]
          /\ UNCHANGED <<navVars, otherVars, now, lastKey>>

\* Time passes.
Tick ==
  /\ now + TickMs <= MaxTime
  /\ now' = now + TickMs
  /\ UNCHANGED <<navVars, otherVars, critical, lastKey>>

(***************************************************************************)
(* Continuations                                                           *)
(***************************************************************************)
\* The fetch of invocation i settles (and, when ok, its body is read):
\* loadComponent returns, and its caller runs on to its next suspension.
FetchSettled(i, outcome, v, thrown) ==
  /\ tasks[i].await = "fetch"
  /\ LET t == tasks[i]
         route == routesGet(t.route)
         c == route.component
         got == fetchSettled(c, outcome, v)
         failed == outcome # "ok"
     IN  /\ cache' = got.cache
         /\ loadLog' = LogReturn(c, t.callNo, got.content)
         /\ IF t.op = "loadRoute"
            THEN \E r \in {afterLoad(i, route, got.content, failed, t.callNo,
                                      thrown, loadingDisplay)} :
                     /\ currentRoute' = r.currentRoute
                     /\ pageHook' = r.pageHook
                     /\ appInnerHTML' = r.appInnerHTML
                     /\ documentTitle' = r.documentTitle
                     /\ loadingDisplay' = r.loadingDisplay
                     /\ tasks' = r.tasks
                     /\ timerQueue' = r.timerQueue
                     /\ hooksRun' = r.hooksRun
                     /\ phaseLog' = [phaseLog EXCEPT ![i] = @ \o r.phases]
                     /\ lastOp' = Op("fetchSettled", t.route, r.report)
                     /\ UNCHANGED prefetchedRoutes
            ELSE /\ prefetchedRoutes' = prefetchSettled(t.route, c, failed).prefetchedRoutes
                 /\ tasks' = [tasks EXCEPT ![i] = IdleTask]
                 /\ lastOp' = Op("fetchSettled", t.route,
                                 prefetchSettled(t.route, c, failed).report)
                 /\ UNCHANGED <<currentRoute, pageHook, appInnerHTML,
                                documentTitle, loadingDisplay, timerQueue,
                                hooksRun, phaseLog>>
  /\ critical' = IF tasks[i].op = "prefetchRoute"
                  THEN criticalResumed(critical) ELSE critical
  /\ UNCHANGED <<hasApp, hasLoading, locationHash, hashchangeQueue, fetchCount,
                 prefetchFetches, prefetchCalls, events, firstEvent>>
  /\ UNCHANGED <<otherVars, now, lastKey>>

\* The transition timer of invocation i fires: renderContent replaces the
\* mount point content and returns, and loadRoute runs to its end.
TimerFired(i, thrown) ==
  /\ tasks[i].await = "timer"
  /\ i = NextTimer(timerQueue)
  /\ timerQueue' = SelectSeq(timerQueue, LAMBDA j : j # i)
  /\ \E t \in {tasks[i]} :
       \E r \in {settle(i, routesGet(t.route), t.failed, thrown, t.content,
                        loadingDisplay)} :
         /\ currentRoute' = r.currentRoute
         /\ pageHook' = r.pageHook
         /\ appInnerHTML' = r.appInnerHTML
         /\ loadingDisplay' = r.loadingDisplay
         /\ tasks' = r.tasks
         /\ hooksRun' = r.hooksRun
         /\ phaseLog' = [phaseLog EXCEPT ![i] = @ \o r.phases]
         /\ lastOp' = Op("timerFired", t.route, r.report)
  /\ UNCHANGED <<hasApp, hasLoading, cache, prefetchedRoutes, documentTitle,
                 locationHash, hashchangeQueue, fetchCount, prefetchFetches,
                 prefetchCalls, loadLog, events, firstEvent>>
  /\ UNCHANGED appVars

(***************************************************************************)
(* Configuration module: CONFIG, getConfig, isFeatureEnabled               *)
(*                                                                         *)
(* A JavaScript value is a record of its type, its printed value and its   *)
(* own properties; a string has the property length. A dot path is a       *)
(* sequence of tokens in which "." is a token of its own.                  *)
(***************************************************************************)
JsValue(t, v, props) == [type |-> t, val |-> v, props |-> props]

NoProps == [k \in {} |-> k]

JsUndefined == JsValue("undefined", "undefined", NoProps)
JsNull == JsValue("null", "null", NoProps)
JsTrue == JsValue("boolean", "true", NoProps)
JsFalse == JsValue("boolean", "false", NoProps)
JsNumber(v) == JsValue("number", v, NoProps)
JsString(v, len) == JsValue("string", v, [length |-> JsNumber(len)])
JsObject(props) == JsValue("object", "", props)

\* The value used as a condition: false for undefined, null, false, 0 and ''.
Truthy(x) ==
  /\ x.type \notin {"undefined", "null"}
  /\ x \notin {JsFalse, JsNumber("0"), JsString("", "0")}

\* obj[key] on a value that is neither null nor undefined
Get(obj, key) ==
  IF key \in DOMAIN obj.props THEN obj.props[key] ELSE JsUndefined

\* The CONFIG object (COMPANY, CAROUSEL and ERROR_HANDLING, which no caller
\* in the page scripts reads, are left out).
CONFIG ==
  JsObject(
    [API |-> JsObject(
       [BASE_URL |-> JsString("https://api.ktlbd.com", "21"),
        TIMEOUT |-> JsNumber("10000"),
        RETRY_ATTEMPTS |-> JsNumber("3"),
        ENDPOINTS |-> JsObject(
          [NEWS |-> JsString("/api/news", "9"),
           CONTACT |-> JsString("/api/contact", "12"),
           RFQ |-> JsString("/api/rfq", "8"),
           CAREERS |-> JsString("/api/careers", "12"),
           STOCKS |-> JsString("/api/stocks", "11")])]),
     FEATURES |-> JsObject(
       [ANIMATIONS |-> JsTrue,
        SOUND_EFFECTS |-> JsFalse,
        ADVANCED_CHARTS |-> JsTrue,
        LIVE_CHAT |-> JsFalse,
        ANALYTICS |-> JsTrue,
        SERVICE_WORKER |-> JsTrue]),
     THEME |-> JsObject(
       [DEFAULT |-> JsString("dark", "4"),
        STORAGE_KEY |-> JsString("ktl-theme-preference", "20"),
        AUTO_DETECT |-> JsTrue]),
     ANIMATION |-> JsObject(
       [DURATION |-> JsObject(
          [FAST |-> JsNumber("150"),
           NORMAL |-> JsNumber("300"),
           SLOW |-> JsNumber("500")]),
        RESPECT_REDUCED_MOTION |-> JsTrue]),
     SEO |-> JsObject(
       [TITLE_TEMPLATE |-> JsString("%s | Kattali Textile Ltd.", "25"),
        CANONICAL_URL |-> JsString("https://ktlbd.com", "17")]),
     PERFORMANCE |-> JsObject(
       [LAZY_LOAD_OFFSET |-> JsNumber("100"),
        IMAGE_QUALITY |-> JsNumber("85"),
        PREFETCH_DELAY |-> JsNumber("2000"),
        CACHE_VERSION |-> JsString("1.0.0", "5")]),
     ANALYTICS |-> JsObject(
       [GOOGLE_ANALYTICS_ID |-> JsNull,
        TRACK_PAGE_VIEWS |-> JsTrue,
        TRACK_EVENTS |-> JsTrue,
        ANONYMIZE_IP |-> JsTrue]),
     SERVICE_WORKER |-> JsObject(
       [ENABLED |-> JsTrue,
        UPDATE_CHECK_INTERVAL |-> JsNumber("60000"),
        CACHE_STRATEGY |-> JsString("cache-first", "11"),
        OFFLINE_PAGE |-> JsString("/offline.html", "13")]),
     DEV |-> JsObject(
       [CONSOLE_LOGS |-> JsTrue,
        PERFORMANCE_MONITORING |-> JsTrue,
        ERROR_OVERLAY |-> JsTrue])])

\* path.split('.'): the segments between the dots, '' where there is none.
RECURSIVE Split(_)
Split(str) ==
  IF str = << >> THEN <<"">>
  ELSE IF Head(str) = "." THEN <<"">> \o Split(Tail(str))
  ELSE IF Len(str) = 1 THEN str
  ELSE <<Head(str)>> \o Split(Tail(Tail(str)))

\* keys.reduce((obj, key) => obj && obj[key] !== undefined ? obj[key]
\*                                                         : defaultValue, obj)
RECURSIVE reduce(_, _, _)
reduce(keys, obj, defaultValue) ==
  IF keys = << >> THEN obj
  ELSE reduce(Tail(keys),
              IF Truthy(obj) /\ Get(obj, Head(keys)) # JsUndefined
              THEN Get(obj, Head(keys)) ELSE defaultValue,
              defaultValue)

\* getConfig(path, defaultValue = null): an omitted default is null.
getConfig(path, defaultValue) ==
  reduce(Split(path), CONFIG,
         IF defaultValue = JsUndefined THEN JsNull ELSE defaultValue)

\* isFeatureEnabled(featureName)
isFeatureEnabled(featureName) ==
  getConfig(<<"FEATURES", ".">> \o featureName, JsFalse)

\* Keys the calls of a session are made of, and the longest path in keys.
ConfigKeys == {"FEATURES", "ANALYTICS", "SERVICE_WORKER", "ENABLED",
               "GOOGLE_ANALYTICS_ID", "UNKNOWN", "length"}

\* keys.join('.')
RECURSIVE Join(_)
Join(keys) ==
  IF Len(keys) = 1 THEN keys ELSE <<Head(keys), ".">> \o Join(Tail(keys))

ConfigPaths ==
  {<< >>} \cup {Join(keys) : keys \in UNION {[1 .. n -> ConfigKeys] :
                                              n \in 1 .. MaxPathKeys}}

\* Defaults the callers pass: none, null, false, a string, a number, and an
\* object with a property of its own.
Defaults ==
  {JsUndefined, JsNull, JsFalse, JsString("dark", "4"), JsNumber("2000"),
   JsObject([ENABLED |-> JsFalse])}

NoCall == [fn |-> "", path |-> << >>, defaultValue |-> JsUndefined,
           result |-> JsUndefined, returned |-> FALSE]

\* A script calls getConfig with the arguments the session holds.
GetConfig ==
  /\ configCall.fn = "getConfig"
  /\ ~configCall.returned
  /\ configCall' = [configCall EXCEPT
                      !.result = getConfig(configCall.path,
                                           configCall.defaultValue),
                      !.returned = TRUE]
  /\ UNCHANGED <<navVars, theme, themeLog, charts, now, critical, lastKey>>

\* A script calls isFeatureEnabled with the name the session holds.
IsFeatureEnabled ==
  /\ configCall.fn = "isFeatureEnabled"
  /\ ~configCall.returned
  /\ configCall' = [configCall EXCEPT
                      !.result = isFeatureEnabled(configCall.path),
                      !.returned = TRUE]
  /\ UNCHANGED <<navVars, theme, themeLog, charts, now, critical, lastKey>>

(***************************************************************************)
(* Theme (main.js): initializeTheme, applyTheme, toggleTheme               *)
(***************************************************************************)
Themes == {"dark", "light"}

\* localStorage.getItem on a key never set
NoItem == "null"

\* getConfig('THEME.AUTO_DETECT', true)
AutoDetect == Truthy(getConfig(<<"THEME", ".", "AUTO_DETECT">>, JsTrue))

\* getConfig('THEME.DEFAULT', 'dark')
DefaultTheme == getConfig(<<"THEME", ".", "DEFAULT">>, JsString("dark", "4")).val

\* applyTheme(theme)
applyTheme(t, newTheme) ==
  [t EXCEPT !.dataTheme = newTheme, !.currentTheme = newTheme]

\* The state initializeTheme leaves: savedTheme is the constant its change
\* listener has captured.
initializeTheme(stored, systemTheme, hasToggle) ==
  LET savedTheme == stored
      t == [savedTheme |-> savedTheme, systemTheme |-> systemTheme,
            currentTheme |-> "dark", dataTheme |-> NoItem, stored |-> stored,
            hasToggle |-> hasToggle]
  IN  applyTheme(t, IF savedTheme # NoItem THEN savedTheme
                    ELSE IF AutoDetect THEN systemTheme ELSE DefaultTheme)

\* toggleTheme()
toggleTheme(t) ==
  LET newTheme == IF t.currentTheme = "dark" THEN "light" ELSE "dark"
  IN  [applyTheme(t, newTheme) EXCEPT !.stored = newTheme]

\* The change listener of (prefers-color-scheme: dark), registered when
\* AUTO_DETECT is on: if (!savedTheme) applyTheme(e.matches ? 'dark' : 'light')
systemThemeChanged(t, systemTheme) ==
  LET t1 == [t EXCEPT !.systemTheme = systemTheme]
  IN  IF AutoDetect /\ t.savedTheme = NoItem
      THEN applyTheme(t1, systemTheme) ELSE t1

\* What the history keeps of a state.
ThemeSeen(t) == [dataTheme |-> t.dataTheme, stored |-> t.stored]

ThemeLogged(n, ev1, prev1, ev2, prev2, chosen) ==
  [events |-> n, ev1 |-> ev1, prev1 |-> prev1, ev2 |-> ev2, prev2 |-> prev2,
   chosen |-> chosen]

\* Bookkeeping of a theme event.
LogThemeEvent(ev) ==
  themeLog' = ThemeLogged(themeLog.events + 1, ev, ThemeSeen(theme),
                          themeLog.ev1, themeLog.prev1,
                          themeLog.chosen \/ ev = "toggle")

\* A click on the theme toggle.
ToggleTheme ==
  /\ themeLog.events < MaxThemeEvents
  /\ theme.hasToggle
  /\ theme' = toggleTheme(theme)
  /\ LogThemeEvent("toggle")
  /\ UNCHANGED <<navVars, configCall, charts, now, critical, lastKey>>

\* The system colour scheme changes to the other value.
SystemThemeChange ==
  /\ themeLog.events < MaxThemeEvents
  /\ theme' = systemThemeChanged(theme, IF theme.systemTheme = "dark"
                                        THEN "light" ELSE "dark")
  /\ LogThemeEvent("system")
  /\ UNCHANGED <<navVars, configCall, charts, now, critical, lastKey>>

\* No theme event yet in a session that starts with the given storage, system
\* colour scheme and toggle element.
ThemeInit(stored, systemTheme, hasToggle) ==
  /\ theme = initializeTheme(stored, systemTheme, hasToggle)
  /\ themeLog = ThemeLogged(0, "", ThemeSeen(theme), "", ThemeSeen(theme), FALSE)

(***************************************************************************)
(* Investor charts (stocks.js): StockVisualization and initializeCharts    *)
(*                                                                         *)
(* An instance is its isAnimating flag, the number of requestAnimationFrame *)
(* callbacks it has pending and the number of frames it has drawn. The     *)
(* last instance is window.stockChart; earlier ones are referenced only by *)
(* their own pending callbacks.                                            *)
(***************************************************************************)
Chart(isAnimating, pending, frames) ==
  [isAnimating |-> isAnimating, pending |-> pending, frames |-> frames]

\* animate(): draw one frame and request the next, unless stopped.
animate(chart) ==
  IF ~chart.isAnimating THEN chart
  ELSE [chart EXCEPT !.frames = IF @ < MaxFrames THEN @ + 1 ELSE @,
                     !.pending = @ + 1]

\* startAnimation()
startAnimation(chart) ==
  IF chart.isAnimating THEN chart
  ELSE animate([chart EXCEPT !.isAnimating = TRUE])

\* stopAnimation(): the callback requested last is cancelled.
stopAnimation(chart) ==
  [chart EXCEPT !.isAnimating = FALSE,
                !.pending = IF @ > 0 THEN @ - 1 ELSE @]

\* new StockVisualization() with the canvas in the document: init() ends with
\* startAnimation().
NewStockVisualization == startAnimation(Chart(FALSE, 0, 0))

\* initializeCharts(): a new instance replaces window.stockChart when the
\* document holds #investor-chart; the instance it replaces is left as it is.
initializeCharts(c, hasCanvas) ==
  IF hasCanvas
  THEN [c EXCEPT !.instances = Append(@, NewStockVisualization)]
  ELSE c

NoCharts == [instances |-> << >>, onInvestors |-> FALSE]

\* The router has mounted the investors fragment and its hook
\* initializeInvestorCharts calls window.initializeCharts().
ActivateInvestors(hasCanvas) ==
  /\ ~charts.onInvestors
  /\ Len(charts.instances) < MaxActivations
  /\ charts' = [initializeCharts(charts, hasCanvas) EXCEPT !.onInvestors = TRUE]
  /\ UNCHANGED <<navVars, configCall, theme, themeLog, now, critical, lastKey>>

\* The router has mounted another page: the canvas leaves the document.
LeaveInvestors ==
  /\ charts.onInvestors
  /\ charts' = [charts EXCEPT !.onInvestors = FALSE]
  /\ UNCHANGED <<navVars, configCall, theme, themeLog, now, critical, lastKey>>

\* A pending requestAnimationFrame callback of instance k runs animate().
AnimationFrame(k) ==
  /\ k \in DOMAIN charts.instances
  /\ charts.instances[k].pending > 0
  /\ charts' = [charts EXCEPT !.instances[k] =
                  animate([@ EXCEPT !.pending = @ - 1])]
  /\ UNCHANGED <<navVars, configCall, theme, themeLog, now, critical, lastKey>>

\* A script calls window.stockChart.startAnimation().
StartAnimation ==
  /\ charts.instances # << >>
  /\ charts' = [charts EXCEPT !.instances[Len(charts.instances)] =
                  startAnimation(@)]
  /\ UNCHANGED <<navVars, configCall, theme, themeLog, now, critical, lastKey>>

\* A script calls window.stockChart.stopAnimation().
StopAnimation ==
  /\ charts.instances # << >>
  /\ charts' = [charts EXCEPT !.instances[Len(charts.instances)] =
                  stopAnimation(@)]
  /\ UNCHANGED <<navVars, configCall, theme, themeLog, now, critical, lastKey>>

(***************************************************************************)
(* Specification                                                           *)
(***************************************************************************)
\* The state after new Router(): init() has run handleRoute() for the hash the
\* page was opened with, whose loadRoute is suspended at its fetch.
RouterInit ==
  /\ hasApp \in BOOLEAN
  /\ hasLoading \in BOOLEAN
  /\ locationHash \in InitialHashes
  /\ currentRoute = Null
  /\ cache = [c \in Components |-> NoContent]
  /\ prefetchedRoutes = {}
  /\ appInnerHTML = ShellContent
  /\ documentTitle = << >>
  /\ loadingDisplay = IF hasLoading THEN "block" ELSE ""
  /\ pageHook = ""
  /\ hashchangeQueue = 0
  /\ timerQueue = << >>
  /\ hooksRun = {}
  /\ phaseLog = [i \in Slots |->
                   IF i = 1 THEN <<"showLoading", "loadComponent">> ELSE << >>]
  /\ LET route == Resolve(PathFromHash(locationHash))
     IN  /\ tasks = [i \in Slots |->
                       IF i = 1
                       THEN Task("loadRoute", route.path, "fetch", NoContent, FALSE, 1)
                       ELSE IdleTask]
         /\ fetchCount = [c \in Components |->
                            IF c = route.component THEN 1 ELSE 0]
         /\ loadLog = [c \in Components |->
                         IF c = route.component
                         THEN <<LogEntry(NoContent, TRUE, TRUE)>> ELSE << >>]
         /\ lastOp = Op("init", PathFromHash(locationHash),
                        Report("", "", "", FALSE, route.component))
  /\ prefetchFetches = 0
  /\ prefetchCalls = [p \in HoverArgs |-> 0]
  /\ events = 0
  /\ firstEvent = [op |-> "", arg |-> << >>, current |-> Null,
                   cacheEmpty |-> TRUE, idle |-> FALSE]

\* A session of navigation: no other module of the page is exercised.
Init ==
  /\ RouterInit
  /\ configCall = NoCall
  /\ ThemeInit(NoItem, "dark", TRUE)
  /\ charts = NoCharts
  /\ now = 0
  /\ critical = CriticalLoop("delay", 0, << >>)
  /\ lastKey = NoKey

\* What happens by itself: fetches settle and timers fire.
Continue ==
  \/ \E i \in Slots, outcome \in Outcomes, v \in Versions, thrown \in Throws :
       FetchSettled(i, outcome, v, thrown)
  \/ \E i \in Slots, thrown \in Throws : TimerFired(i, thrown)

\* A session of navigation: clicks, the hashchange events they cause.
Next ==
  \/ \E arg \in NavArgs : NavigateTo(arg)
  \/ HashChange
  \/ Continue

Spec == Init /\ [][Next]_vars

\* The network and the timer queue do their part: a pending fetch eventually
\* settles, one way or the other, and a started timer eventually fires.
Fairness ==
  \A i \in Slots :
    /\ WF_vars(\E outcome \in Outcomes, v \in Versions, thrown \in Throws :
                 FetchSettled(i, outcome, v, thrown))
    /\ WF_vars(\E thrown \in Throws : TimerFired(i, thrown))

SpecLive == Init /\ [][Next]_vars /\ Fairness

\* A session of hovering over links while the first page loads.
NextPrefetch ==
  \/ \E arg \in HoverArgs : Hover(arg)
  \/ Continue

SpecPrefetch == Init /\ [][NextPrefetch]_vars

\* A session of one configuration lookup, on a page opened on the empty hash.
InitConfig ==
  /\ RouterInit
  /\ hasApp /\ hasLoading /\ locationHash = << >>
  /\ ThemeInit(NoItem, "dark", TRUE)
  /\ charts = NoCharts
  /\ now = 0
  /\ critical = CriticalLoop("delay", 0, << >>)
  /\ lastKey = NoKey
  /\ configCall \in
       {[NoCall EXCEPT !.fn = "getConfig", !.path = path,
                       !.defaultValue = d] :
          path \in ConfigPaths, d \in Defaults}
       \cup {[NoCall EXCEPT !.fn = "isFeatureEnabled", !.path = name] :
               name \in ConfigPaths}

NextConfig ==
  \/ GetConfig
  \/ IsFeatureEnabled

SpecConfig == InitConfig /\ [][NextConfig]_vars

\* A session of theme events, on a page opened on the empty hash.
InitTheme ==
  /\ RouterInit
  /\ hasApp /\ hasLoading /\ locationHash = << >>
  /\ configCall = NoCall
  /\ charts = NoCharts
  /\ now = 0
  /\ critical = CriticalLoop("delay", 0, << >>)
  /\ lastKey = NoKey
  /\ \E stored \in Themes \cup {NoItem}, systemTheme \in Themes,
        hasToggle \in BOOLEAN :
       ThemeInit(stored, systemTheme, hasToggle)

NextTheme ==
  \/ ToggleTheme
  \/ SystemThemeChange

SpecTheme == InitTheme /\ [][NextTheme]_vars

\* A session of visits to the investors page.
NextCharts ==
  \/ \E hasCanvas \in BOOLEAN : ActivateInvestors(hasCanvas)
  \/ LeaveInvestors
  \/ \E k \in 1 .. MaxActivations : AnimationFrame(k)
  \/ StartAnimation
  \/ StopAnimation

SpecCharts == Init /\ [][NextCharts]_vars

\* A session of one keydown event.
NextKeyboard ==
  \/ \E altKey \in BOOLEAN, key \in Keys : KeyDown(altKey, key)
  \/ HashChange
  \/ Continue

SpecKeyboard == Init /\ [][NextKeyboard]_vars

\* A session with no user action in which every fetch succeeds: the first
\* page loads, time passes and prefetchCriticalRoutes does its work.
NextCritical ==
  \/ Tick
  \/ CriticalDelayFired
  \/ CriticalGapFired
  \/ \E i \in Slots, v \in Versions, thrown \in Throws :
       FetchSettled(i, "ok", v, thrown)
  \/ \E i \in Slots, thrown \in Throws : TimerFired(i, thrown)

\* Time passes, timers whose delay has elapsed fire and fetches settle.
FairnessCritical ==
  /\ WF_vars(Tick)
  /\ WF_vars(CriticalDelayFired)
  /\ WF_vars(CriticalGapFired)
  /\ \A i \in Slots :
       /\ WF_vars(\E v \in Versions, thrown \in Throws :
                    FetchSettled(i, "ok", v, thrown))
       /\ WF_vars(\E thrown \in Throws : TimerFired(i, thrown))

SpecCritical == Init /\ [][NextCritical]_vars /\ FairnessCritical

(***************************************************************************)
(* Claims                                                                  *)
(***************************************************************************)
\* The last step called loadRoute(op.path).
CallsLoadRoute(op) == op.op \in {"navigateTo", "hashchange"}

\* The last step ended a loadRoute invocation that had got past the
\* already-current check.
EndsLoadRoute(op) == op.report.finished = "loadRoute"

\* C1: a loadRoute(path) whose resolved route's path equals currentRoute
\* returns at once: no fetch is issued, no invocation is left in flight, and
\* the mount point, cache, title, loading indicator and currentRoute stay as
\* they were.
C1_IdempotentRenavigation ==
  [][ (CallsLoadRoute(lastOp') /\ Resolve(lastOp'.path).path = currentRoute)
        => UNCHANGED <<cache, appInnerHTML, documentTitle, loadingDisplay,
                       currentRoute, pageHook, tasks, fetchCount>> ]_vars

\* C1 witness: a loadRoute call for the page that is current has returned.
C1_Witness ==
  /\ CallsLoadRoute(lastOp)
  /\ lastOp.report.exit = "already"
  /\ currentRoute # Null
  /\ currentRoute = Resolve(lastOp.path).path

\* C2 (as claimed): after a single navigateTo('about'), made on another page
\* with an empty cache and nothing in flight, once all work has finished
\* partials/about.html was fetched exactly once, the title is
\* 'About Us | Kattali Textile Ltd.' and currentRoute is 'about'.
C2_AboutFetchedOnce ==
  ( /\ events = 1
    /\ firstEvent.op = "navigateTo"
    /\ Normalize(firstEvent.arg) = <<"about">>
    /\ firstEvent.cacheEmpty
    /\ firstEvent.idle
    /\ firstEvent.current \notin {Null, <<"about">>}
    /\ Quiescent )
  => /\ fetchCount["about"] = 1
     /\ documentTitle = <<"About Us", " | Kattali Textile Ltd.">>
     /\ currentRoute = <<"about">>

\* The second loadComponent(c) call was made after the first had returned.
SecondAfterFirst(c) == Len(loadLog[c]) = 2 /\ loadLog[c][2].prevDone

\* C3 (as claimed): for every page id, a second loadComponent call made after
\* the first has returned issues no fetch and returns the markup the first
\* returned.
C3_SecondLoadIdentical ==
  \A c \in Components :
    SecondAfterFirst(c)
      => ~loadLog[c][2].fetched /\ loadLog[c][2].ret = loadLog[c][1].ret

\* C3 (amended): for every page id, when the first loadComponent call returned
\* the fetched fragment, a second call made after it issues no fetch and
\* returns the identical markup.
C3_SecondLoadIdenticalAfterSuccess ==
  \A c \in Components :
    (SecondAfterFirst(c) /\ loadLog[c][1].ret.kind = "fragment")
      => ~loadLog[c][2].fetched /\ loadLog[c][2].ret = loadLog[c][1].ret

\* C3 witness: a second call, after a first that fetched the fragment, has
\* returned that fragment.
C3_Witness ==
  \E c \in Components :
    /\ SecondAfterFirst(c)
    /\ loadLog[c][1].fetched
    /\ loadLog[c][1].ret.kind = "fragment"
    /\ loadLog[c][2].ret = loadLog[c][1].ret

\* A prefetchRoute(p) invocation is suspended at its fetch.
PrefetchPending(p) ==
  \E i \in Slots : tasks[i].op = "prefetchRoute" /\ tasks[i].route = p

\* C4 (as claimed): starting from an empty cache, two prefetchRoute(p) calls
\* for a registered path p, overlapping or not, have issued exactly one fetch
\* once both are over.
C4_PrefetchDedup ==
  \A p \in InputPaths :
    (prefetchCalls[p] = 2 /\ firstEvent.cacheEmpty /\ ~PrefetchPending(p))
      => prefetchFetches = 1

\* C5 (as claimed): a loadRoute whose fragment fetch failed completes, leaves
\* the page's 'Content Unavailable' block in the mount point, and hides the
\* loading indicator.
C5_FallbackShown ==
  (EndsLoadRoute(lastOp) /\ lastOp.report.failed)
    => /\ lastOp.report.settled = "resolved"
       /\ hasApp => appInnerHTML = getErrorContent(lastOp.report.component)
       /\ hasLoading => loadingDisplay = "none"

\* Paths that are no key of the route table.
UnregisteredPaths ==
  {UnknownPath, <<"/">> \o UnknownPath, <<"about", "/">>, <<"Home">>}

\* C6: for every path that is no key of the route table, loadRoute(path) does
\* in every state exactly what loadRoute('home') does there: the same early
\* return, or the same invocation of the 'home' route, which then renders the
\* home content, title and hook, throwing hooks included.
C6_UnknownPathIsHome ==
  \A path \in UnregisteredPaths, thrown \in Throws :
    /\ ~routesHas(path)
    /\ Resolve(path) # Undefined
    /\ loadRouteStep(path, thrown) = loadRouteStep(<<"home">>, thrown)

\* C6 witness: navigateTo of an unregistered path has left an invocation of
\* the 'home' route in flight.
C6_Witness ==
  /\ lastOp.op = "navigateTo"
  /\ ~routesHas(lastOp.path)
  /\ \E i \in Slots : tasks[i].op = "loadRoute" /\ tasks[i].route = <<"home">>

\* C7 (as claimed): while the home page is current, a loadRoute for any path
\* that resolves to the home page returns at the already-current check and
\* leaves the mount point as it was.
C7_IdempotentByPage ==
  [][ ( /\ CallsLoadRoute(lastOp')
        /\ currentRoute # Null
        /\ Resolve(currentRoute).component = "home"
        /\ Resolve(lastOp'.path).component = "home" )
        => /\ lastOp'.report.exit = "already"
           /\ appInnerHTML' = appInnerHTML ]_vars

\* C8: every cache value is a fetched fragment of its own page; a fetch that
\* fails leaves the cache as it was; and a loadComponent call that finds no
\* cache entry issues a fetch.
C8_FailedFetchNotCached ==
  /\ [](\A c \in Components :
          cache[c] # NoContent
            => cache[c].kind = "fragment" /\ cache[c].component = c)
  /\ [][ (lastOp'.op = "fetchSettled" /\ lastOp'.report.failed)
           => cache' = cache ]_vars
  /\ [][ ( /\ CallsLoadRoute(lastOp')
           /\ lastOp'.report.exit # "already"
           /\ cache[lastOp'.report.component] = NoContent )
           => fetchCount'[lastOp'.report.component]
                = fetchCount[lastOp'.report.component] + 1 ]_vars

\* C8 witness: a fetch has failed and the page has no cache entry.
C8_Witness ==
  /\ lastOp.op = "fetchSettled"
  /\ lastOp.report.failed
  /\ cache[lastOp.report.component] = NoContent

\* C9 (as claimed): when a step of loadRoute's try block throws, loadRoute
\* catches it, the mount point (where there is one) holds the generic error
\* block and the promise resolves, with or without a mount point.
C9_ErrorsCaught ==
  (EndsLoadRoute(lastOp) /\ lastOp.report.exit \in {"caught", "rethrown"})
    => /\ lastOp.report.settled = "resolved"
       /\ hasApp => appInnerHTML = ErrorPage

\* C10: when a loadRoute invocation that showed the loading indicator ends,
\* on whichever exit path, the indicator is hidden.
C10_LoadingHidden ==
  (EndsLoadRoute(lastOp) /\ hasLoading) => loadingDisplay = "none"

\* C10 witness: an invocation whose fetch failed and whose hook threw has
\* ended with the indicator hidden.
C10_Witness ==
  /\ EndsLoadRoute(lastOp)
  /\ lastOp.report.failed
  /\ lastOp.report.exit = "caught"
  /\ hasLoading
  /\ loadingDisplay = "none"

\* The transition timer of the loadRoute invocation in slot i fires in this
\* step, so the invocation replaces the mount point content and runs to its end.
Mounts(i) == tasks[i].op = "loadRoute" /\ tasks[i].await = "timer" /\ tasks'[i] = IdleTask

\* A phase log of an invocation that ended in the catch because
\* initializePageComponents threw.
HookThrew(log) ==
  "handleRouteError" \in Range(log) /\ "trackPageView" \notin Range(log)

\* C11 (as claimed): when a page-activation hook throws after an invocation
\* has mounted its fragment, the mount point still holds that fragment and
\* currentRoute is the new page.
C11_HookIsolation ==
  [][ \A i \in Slots :
        (Mounts(i) /\ HookThrew(phaseLog'[i]))
          => appInnerHTML' = tasks[i].content /\ currentRoute' = tasks[i].route
    ]_vars

\* The page whose loadComponent call was the first of the session for its
\* component and returned the fallback.
FirstLoadFailed(c) ==
  Len(loadLog[c]) >= 1 /\ loadLog[c][1].ret.kind = "unavailable"

\* C12: whatever happened before, failures included, a loadRoute invocation
\* whose fragment was obtained (fetched or cached) mounts that page's fragment
\* and sets currentRoute to its path; when none of its hooks throws, the mount
\* point holds the fragment when it ends. An invocation that ended, with the
\* fallback or the generic block, leaves a free slot for the next navigation.
C12_UsableAfterFailure ==
  /\ [][ \A i \in Slots :
           (Mounts(i) /\ ~tasks[i].failed)
             => /\ tasks[i].content.kind = "fragment"
                /\ tasks[i].content.component = routesGet(tasks[i].route).component
                /\ "innerHTML" \in Range(phaseLog'[i])
                /\ currentRoute' = tasks[i].route
                /\ "handleRouteError" \notin Range(phaseLog'[i])
                     => appInnerHTML' = tasks[i].content ]_vars
  /\ [](EndsLoadRoute(lastOp) => HasFree)

\* C12 witness: the first page ended with its fallback block, the router was
\* idle, and a navigation to another page has then rendered that page's
\* fragment and made it current.
C12_Witness ==
  /\ hasApp
  /\ lastOp.op = "timerFired"
  /\ EndsLoadRoute(lastOp)
  /\ ~lastOp.report.failed
  /\ lastOp.report.exit = "completed"
  /\ firstEvent.op = "navigateTo"
  /\ firstEvent.idle
  /\ firstEvent.current # Null
  /\ Resolve(firstEvent.current).component # lastOp.report.component
  /\ FirstLoadFailed(Resolve(firstEvent.current).component)
  /\ appInnerHTML = Fragment(lastOp.report.component, appInnerHTML.version)
  /\ currentRoute = lastOp.path

\* This step ran prefetchRoute: the call itself, or its continuation after
\* the fetch settled.
PrefetchStep(op) ==
  op.op = "prefetchRoute" \/ (op.op = "fetchSettled" /\ op.report.finished = "prefetchRoute")

C14_PrefetchedAreCached ==
  \A p \in prefetchedRoutes : cache[routesGet(p).component] # NoContent

\* C15 (as claimed): once the cache holds markup for a page id, no step
\* removes the entry or changes its value.
C15_CachePermanent ==
  [][ \A c \in Components : cache[c] # NoContent => cache'[c] = cache[c] ]_vars

\* The calls the loadRoute invocation of slot i made in this step: the whole
\* log when the step started it, what the step appended when it resumed it.
StepPhases(i) ==
  IF tasks[i] = IdleTask
  THEN IF CallsLoadRoute(lastOp') /\ lastOp'.report.exit # "already" /\ i = FreeSlot
       THEN phaseLog'[i] ELSE << >>
  ELSE SubSeq(phaseLog'[i], Len(phaseLog[i]) + 1, Len(phaseLog'[i]))

\* In this step the invocation of slot i wrote currentRoute, right after its
\* renderContent had returned (with or without a mount) and before any throw.
WroteCurrentRoute(i) ==
  \E k \in 2 .. Len(phaseLog'[i]) :
    /\ k > Len(phaseLog'[i]) - Len(StepPhases(i))
    /\ phaseLog'[i][k] = "currentRoute"
    /\ phaseLog'[i][k - 1] \in {"renderContent", "innerHTML"}
    /\ \A j \in 1 .. k : phaseLog'[i][j] # "handleRouteError"

\* C16: currentRoute changes only in a step of a loadRoute invocation in which
\* that invocation, its renderContent having returned and nothing having
\* thrown before, reaches the currentRoute write, and the new value is the
\* path of that invocation's route. An invocation that has not got past its
\* render leaves currentRoute as it was.
C16_CurrentRouteWrites ==
  [][ currentRoute' # currentRoute
        => /\ lastOp'.op \in {"navigateTo", "hashchange", "fetchSettled", "timerFired"}
           /\ currentRoute' = Resolve(lastOp'.path).path
           /\ \E i \in Slots : WroteCurrentRoute(i)
    ]_vars

\* C16 witness: an invocation whose hooks then threw has written its route's
\* path to currentRoute after its render.
C16_Witness ==
  /\ lastOp.op = "timerFired"
  /\ lastOp.report.exit = "caught"
  /\ currentRoute = lastOp.path
  /\ \E i \in Slots : "innerHTML" \in Range(phaseLog[i]) /\ HookThrew(phaseLog[i])

\* No loadRoute invocation is suspended.
NoNavigationInFlight == \A i \in Slots : tasks[i].op # "loadRoute"

\* The mount point content and the title are those of the route currentRoute
\* names.
DisplayOfCurrentRoute ==
  /\ appInnerHTML.component = Resolve(currentRoute).component
  /\ appInnerHTML.kind \in {"fragment", "unavailable"}
  /\ documentTitle = FullTitle(Resolve(currentRoute).title)

\* C17: with a mount point, once no loadRoute invocation is in flight and the
\* mount point does not hold the error block of a throw, the mount point
\* content, the title and currentRoute belong to one route, overlapping
\* invocations for different pages included; and each invocation that
\* replaces the mount point content without throwing leaves its own content
\* there and its own path in currentRoute, so they are those of the
\* invocation that replaced the content last.
C17_LastRenderWins ==
  /\ []( (hasApp /\ NoNavigationInFlight /\ currentRoute # Null
            /\ appInnerHTML # ErrorPage)
         => DisplayOfCurrentRoute )
  /\ [][ \A i \in Slots :
           (Mounts(i) /\ "handleRouteError" \notin Range(phaseLog'[i]))
             => /\ appInnerHTML' = tasks[i].content
                /\ currentRoute' = tasks[i].route
     ]_vars

\* C17 witness: a navigation to another page started while the first page
\* was still loading, both invocations went through both slots without a
\* throw, and all has finished with one route on display.
C17_Witness ==
  /\ hasApp
  /\ NoNavigationInFlight
  /\ hashchangeQueue = 0
  /\ firstEvent.op = "navigateTo"
  /\ ~firstEvent.idle
  /\ \A p \in InputPaths : loadLog[Resolve(p).component] # << >>
  /\ \A i \in Slots :
       "innerHTML" \in Range(phaseLog[i]) /\ "handleRouteError" \notin Range(phaseLog[i])
  /\ currentRoute # Null
  /\ DisplayOfCurrentRoute

\* The calls of one loadRoute invocation in the order of its source text: the
\* try block, then the catch, then the finally.
PhaseOrder ==
  <<"showLoading", "loadComponent", "updatePageTitle", "updateActiveNavigation",
    "renderContent", "innerHTML", "currentRoute", "initializePageComponents",
    "trackPageView", "handleRouteError", "hideLoading">>

\* the position of a call in PhaseOrder (0 when it is none of them)
Rank(phase) ==
  IF phase \in Range(PhaseOrder)
  THEN CHOOSE k \in 1 .. Len(PhaseOrder) : PhaseOrder[k] = phase
  ELSE 0

\* A log keeps the order of PhaseOrder; a call of the try block appears only
\* after all the calls before it (the mount only where there is a mount
\* point); and the catch comes directly after the hooks or the analytics call,
\* whichever threw, so nothing of the try block runs after a throw.
OrderedPhases(log) ==
  /\ \A k \in 1 .. Len(log) : Rank(log[k]) > 0
  /\ \A j, k \in 1 .. Len(log) : j < k => Rank(log[j]) < Rank(log[k])
  /\ \A k \in 1 .. Len(log) :
       Rank(log[k]) <= Rank("trackPageView")
         => \A r \in 1 .. (Rank(log[k]) - 1) :
              PhaseOrder[r] \in Range(log) \/ (PhaseOrder[r] = "innerHTML" /\ ~hasApp)
  /\ \A k \in 1 .. Len(log) :
       log[k] = "handleRouteError"
         => k > 1 /\ log[k - 1] \in {"initializePageComponents", "trackPageView"}
  /\ "innerHTML" \in Range(log) => hasApp

\* C18: the calls of every loadRoute invocation, in flight or ended, follow
\* the order load, title, active link, render, mount, currentRoute write,
\* hooks, analytics, and stop at the call that threw.
C18_PhasesOrdered == \A i \in Slots : OrderedPhases(phaseLog[i])

\* C18 witness: an invocation went through every phase up to the hooks, which
\* threw, and the analytics call did not run.
C18_Witness ==
  \E i \in Slots :
    phaseLog[i] = <<"showLoading", "loadComponent", "updatePageTitle",
                    "updateActiveNavigation", "renderContent", "innerHTML",
                    "currentRoute", "initializePageComponents",
                    "handleRouteError", "hideLoading">>

\* C19: when every pending fetch eventually settles and every started timer
\* eventually fires, every loadRoute invocation in flight eventually ends,
\* whether its fetch fails or its hooks throw, and the router is again and
\* again without a navigation in flight.
C19_ReturnToIdle ==
  /\ \A i \in Slots : (tasks[i].op = "loadRoute") ~> (tasks[i] = IdleTask)
  /\ []<>NoNavigationInFlight

\* C19 witness: an invocation whose fetch failed and whose hooks threw has
\* ended and nothing is in flight.
C19_Witness ==
  /\ EndsLoadRoute(lastOp)
  /\ lastOp.report.failed
  /\ lastOp.report.exit \in {"caught", "rethrown"}
  /\ Quiescent

\* The hooks the switch of initializePageComponents chooses between.
PageHooks == {PageHookOf(c) : c \in Components}

\* C20: after a loadRoute that mounted its fragment and ended without an
\* exception, the hooks that ran are the scroll-animation, kinetic-text,
\* tilt-card and lazy-image hooks together with exactly one hook chosen by the
\* page id.
C20_GenericHooksRun ==
  (hasApp /\ EndsLoadRoute(lastOp) /\ lastOp.report.exit = "completed")
    => /\ {"initializeScrollAnimations", "initializeKineticText",
           "initializeTiltCards", "initializeLazyLoading"} \subseteq hooksRun
       /\ Cardinality(hooksRun \cap PageHooks) = 1

\* Every key of the path exists, each on the value the keys before it lead to.
RECURSIVE PathExists(_, _)
PathExists(obj, keys) ==
  IF keys = << >> THEN TRUE
  ELSE /\ Head(keys) \in DOMAIN obj.props
       /\ PathExists(obj.props[Head(keys)], Tail(keys))

\* The value the keys lead to, when every key exists.
RECURSIVE ValueAt(_, _)
ValueAt(obj, keys) ==
  IF keys = << >> THEN obj ELSE ValueAt(obj.props[Head(keys)], Tail(keys))

\* The default a getConfig call supplied (null when it supplied none).
SuppliedDefault ==
  IF configCall.defaultValue = JsUndefined THEN JsNull
  ELSE configCall.defaultValue

\* C21: getConfig(path, default) returns the value stored at the path when
\* every key of the path exists and the supplied default, whatever it is,
\* when a key is missing; isFeatureEnabled(name) returns true only when
\* FEATURES[name] is true.
C21_GetConfigContract ==
  /\ (configCall.fn = "getConfig" /\ configCall.returned)
       => configCall.result =
            IF PathExists(CONFIG, Split(configCall.path))
            THEN ValueAt(CONFIG, Split(configCall.path))
            ELSE SuppliedDefault
  /\ (configCall.fn = "isFeatureEnabled" /\ configCall.returned
      /\ configCall.result = JsTrue)
       => /\ Len(configCall.path) = 1
          /\ Get(Get(CONFIG, "FEATURES"), configCall.path[1]) = JsTrue

\* The components of the critical routes.
CriticalComponents ==
  {routesGet(criticalRoutes[k]).component : k \in DOMAIN criticalRoutes}

\* The critical prefetches in flight.
CriticalInFlight == {i \in Slots : tasks[i].op = "prefetchRoute"}

\* C22: with no user action, timers firing and fetches succeeding, the loop
\* of prefetchCriticalRoutes calls prefetchRoute for about, contact and rfq in
\* that order, one at a time and never before PREFETCH_DELAY has elapsed, and
\* the fragments of all three are eventually in the cache.
C22_CriticalPrefetch ==
  /\ [](/\ critical.called = SubSeq(<<<<"about">>, <<"contact">>, <<"rfq">>>>,
                                    1, Len(critical.called))
        /\ critical.called # << >> => now >= 2000
        /\ Cardinality(CriticalInFlight) <= 1
        /\ critical.pc # "prefetch" => CriticalInFlight = {})
  /\ <>(\A c \in CriticalComponents : cache[c].kind = "fragment")

\* C22 witness: the loop has ended after three calls and the three fragments
\* are in the cache.
C22_Witness ==
  /\ critical.pc = "done"
  /\ Len(critical.called) = 3
  /\ \A c \in CriticalComponents : cache[c].kind = "fragment"
  /\ prefetchFetches >= 2

\* The route the address hash asks for: the one the last navigateTo requested.
RequestedRoute == Resolve(PathFromHash(locationHash))

\* C23: on a page with a mount point, once a navigateTo has been made and no
\* navigation is in flight, the current route is a route of the page requested
\* last, which is the one in the address hash, and the mount point shows that
\* page (or the error block of a throw).
C23_LastRequestWins ==
  (hasApp /\ events > 0 /\ Quiescent)
    => /\ Resolve(currentRoute).component = RequestedRoute.component
       /\ appInnerHTML.component \in {RequestedRoute.component, ""}

\* The invocations, one per slot at most, whose calls include the given one.
InvocationsCalling(phase) == {i \in Slots : phase \in Range(phaseLog[i])}

\* A single navigateTo, made with nothing in flight, for another page than the
\* current one, and all it started has ended.
OneNavigationDone ==
  /\ events = 1
  /\ firstEvent.op = "navigateTo"
  /\ firstEvent.idle
  /\ Resolve(firstEvent.current).component
       # Resolve(Normalize(firstEvent.arg)).component
  /\ Quiescent

\* C24: a navigateTo for another page than the current one, made with nothing
\* in flight, replaces the mount point content once and calls the page hooks
\* once and the analytics call at most once, the loadRoute of its own
\* hashchange event included. (The first load ran in the slot the navigateTo
\* takes, so the slots' logs hold exactly the invocations the call started.)
C24_OneRenderPerRequest ==
  (hasApp /\ OneNavigationDone)
    => /\ Cardinality(InvocationsCalling("innerHTML")) = 1
       /\ Cardinality(InvocationsCalling("initializePageComponents")) = 1
       /\ Cardinality(InvocationsCalling("trackPageView")) <= 1

\* C25: on a page with a mount point, whenever no loadRoute is in flight and
\* currentRoute is a path, the mount point holds the fragment of that path's
\* page or its fallback, never the error block or another page's content.
C25_DisplayMatchesState ==
  (hasApp /\ NoNavigationInFlight /\ currentRoute # Null)
    => /\ appInnerHTML.kind \in {"fragment", "unavailable"}
       /\ appInnerHTML.component = Resolve(currentRoute).component

\* Nothing is in flight and the mount point shows the fallback of the current
\* route's page: the navigation to it ended with a failed fetch.
EndedWithFallback ==
  /\ hasApp
  /\ Quiescent
  /\ currentRoute # Null
  /\ appInnerHTML = getErrorContent(Resolve(currentRoute).component)

\* C26: a navigateTo for the page whose navigation just ended with the
\* fallback issues a new fetch for that page.
C26_RetryByRenavigation ==
  [][ \A c \in Components :
        (/\ EndedWithFallback
         /\ Resolve(currentRoute).component = c
         /\ lastOp'.op = "navigateTo"
         /\ Resolve(lastOp'.path).component = c)
          => fetchCount'[c] = fetchCount[c] + 1
    ]_vars

\* C27: on a page with a loading indicator, the indicator is visible while at
\* least one loadRoute invocation is between its showLoading and its end,
\* overlapping invocations included, and hidden when none is in flight after
\* one has ended.
C27_LoadingTracksWork ==
  hasLoading
    => /\ ~NoNavigationInFlight => loadingDisplay = "block"
       /\ (NoNavigationInFlight /\ currentRoute # Null)
            => loadingDisplay = "none"

\* This step takes a loadRoute invocation past its showLoading and leaves it
\* suspended.
StartsLoadRoute ==
  \E i \in Slots : tasks[i].op # "loadRoute" /\ tasks'[i].op = "loadRoute"

\* C27 (amended): on a page with a loading indicator, the indicator follows
\* the last call: a step that ends a loadRoute invocation leaves it hidden,
\* also while other invocations are in flight; a step that starts one leaves
\* it visible; no other step changes it. So it is hidden whenever none is in
\* flight after one has ended.
C27_LoadingFollowsLastCall ==
  /\ []((hasLoading /\ NoNavigationInFlight /\ currentRoute # Null)
          => loadingDisplay = "none")
  /\ [][ hasLoading
           => loadingDisplay' =
                IF EndsLoadRoute(lastOp') THEN "none"
                ELSE IF StartsLoadRoute THEN "block"
                ELSE loadingDisplay
       ]_vars

\* C27 witness: of two overlapping invocations one has ended and hidden the
\* indicator while the other is still in flight.
C27_Witness ==
  /\ hasLoading
  /\ ~NoNavigationInFlight
  /\ EndsLoadRoute(lastOp)
  /\ loadingDisplay = "none"

\* C28: a keydown of Alt with the digit N, for N from 1 to 9, calls
\* navigateTo with the N-th key of the route table, in definition order.
C28_KeyboardShortcuts ==
  \A n \in 1 .. 9 :
    (lastKey.altKey /\ lastKey.key \in Keys /\ CharCode(lastKey.key) = 48 + n)
      => lastKey.called /\ lastKey.arg = Routes[n].path

\* C29: once the user has toggled the theme, a system colour-scheme change
\* does not change the applied theme; and two toggles in a row restore the
\* applied theme and, when one was stored, the stored value.
C29_ExplicitThemeSticky ==
  /\ (themeLog.ev1 = "system" /\ themeLog.chosen)
       => theme.dataTheme = themeLog.prev1.dataTheme
  /\ (themeLog.ev1 = "toggle" /\ themeLog.ev2 = "toggle")
       => /\ theme.dataTheme = themeLog.prev2.dataTheme
          /\ themeLog.prev2.stored # NoItem
               => theme.stored = themeLog.prev2.stored

\* The animation loops that are running: the pending frame callbacks of
\* instances that are animating, each of which will request another.
RECURSIVE RunningLoopsOf(_)
RunningLoopsOf(instances) ==
  IF instances = << >> THEN 0
  ELSE (IF Head(instances).isAnimating THEN Head(instances).pending ELSE 0)
       + RunningLoopsOf(Tail(instances))

\* C30: however often the investors page is activated and left, at most one
\* animation loop is running, and no instance runs more than one.
C30_SingleAnimationLoop ==
  /\ RunningLoopsOf(charts.instances) <= 1
  /\ \A k \in DOMAIN charts.instances : charts.instances[k].pending <= 1

====
